---- MODULE Spec2Model ----
(***************************************************************************)
(* Ingestion-and-retrieval engine of the multi-tenant knowledge platform.  *)
(*                                                                         *)
(* The metadata store is a relational database read at READ COMMITTED:     *)
(* a session sees the committed rows and its own flushed rows.  Every      *)
(* ingestion task owns one session (tasks/ingestion_tasks.py) which is     *)
(* closed, and so rolled back, when the task returns or raises.  The       *)
(* tenant vector index is one file per tenant, written in place by         *)
(* faiss.write_index.                                                      *)
(***************************************************************************)
EXTENDS Integers, Sequences, FiniteSets, TLC

\* ---------------------------------------------------------------- bounds
MaxTasks == 1          \* ingestion tasks run before and between the queries (Spec)
NumTenants == 2        \* tenants
MaxVersion == 2        \* document versions 1..MaxVersion
MaxContentChunks == 2  \* longest content, counted in chunks it produces (Spec)
MaxConcChunks == 2     \* the same for the tasks that run concurrently (ConcSpec)
MaxDay == 1            \* days that pass in one behaviour
MaxDeprecated == 1     \* chunks that callers deprecate in one behaviour
MaxAgeYears == 2       \* oldest chunk scored on its own, in years (FnSpec)
MaxRanked == 3         \* longest candidate list sorted on its own (FnSpec)
MaxTokens == 5         \* longest token stream chunked on its own (FnSpec)
MaxChunkSize == 3      \* largest chunk_size, and chunk_overlap, of such a call (FnSpec)
MaxIndexed == 3        \* largest id in an index searched on its own (FnSpec)
MaxStored == 3         \* chunks of the document that the queries of QuerySpec read

\* ------------------------------------------------------ program constants
CHUNK_SIZE == 500
CHUNK_OVERLAP == 250
NULL == 0              \* a NULL integer column; primary keys start at 1
NoTimestamp == -1      \* a last_updated_at that is None; days count from 0
DefaultTopK == 5
DefaultFreshnessWeight == 10   \* 0.1, in hundredths

\* The two workers of the task queue that run ingest_knowledge_async.
Procs == {1, 2}
Tenants == 1..NumTenants
Versions == 1..MaxVersion
SourceIds == {"doc1"}

\* Contents are token streams, given by their length: the empty text and
\* the shortest texts that produce 1..MaxContentChunks chunks.
Contents(m) ==
  {0} \cup {CHUNK_SIZE + (k - 1) * (CHUNK_SIZE - CHUNK_OVERLAP) : k \in 1..m}

IngestArgs(m) ==
  [tenant_id : Tenants, source_id : SourceIds, version : Versions, content : Contents(m)]

\* Inputs of a query.  A query text is known by the distances of its
\* embedding to the stored vectors (Distance below).
Queries == {0, 1}
TopKs == {0, 1, DefaultTopK}
Weights == {DefaultFreshnessWeight}
ConcTopKs == {2, DefaultTopK}

VARIABLES
  pc,         \* pc[p]: position of worker p in ingest_knowledge
  args,       \* args[p]: (tenant_id, KnowledgeIngest) of p's task
  sess,       \* sess[p]: rows flushed but not committed by p's session
  loc,        \* loc[p]: locals of ingest_knowledge (source, document, chunk_ids, vector_store)
  result,     \* result[p]: what p's task returned or raised
  prior,      \* prior[p]: workers whose task had finished when p's started (history)
  started,    \* number of tasks started so far
  sources,    \* committed KnowledgeSource rows
  documents,  \* committed Document rows
  chunks,     \* committed DocumentChunk rows
  seq,        \* primary-key sequences of the three tables
  drawn,      \* drawn[i]: the tenant whose call drew DocumentChunk id i (history)
  file,       \* file[t]: the tenant's persisted index file
  today,      \* the current day (server clock)
  qres,       \* outcome of the retrieve_chunks call made in the last step, if any
  call,       \* a call of chunk_text or of the scoring functions on its own (FnSpec)
  resp        \* what query_knowledge did with the outcome of that retrieve_chunks call

vars == <<pc, args, sess, loc, result, prior, started, sources, documents, chunks,
          seq, drawn, file, today, qres, call, resp>>

Min(a, b) == IF a < b THEN a ELSE b
Max(a, b) == IF a > b THEN a ELSE b

\* ---------------------------------------------------------------- chunker
\* chunk_text on a stream of n tokens: the windows [start, end) it decodes.
RECURSIVE ChunkLoop(_, _, _, _)
ChunkLoop(n, chunk_size, chunk_overlap, start) ==
  IF ~(start < n) THEN <<>>
  ELSE LET end == start + chunk_size
           window == <<start, Min(end, n)>>
       IN IF end >= n THEN <<window>>
          ELSE <<window>> \o ChunkLoop(n, chunk_size, chunk_overlap,
                                       start + chunk_size - chunk_overlap)

chunk_text(n, chunk_size, chunk_overlap) == ChunkLoop(n, chunk_size, chunk_overlap, 0)

\* ------------------------------------------------------------ vector store
\* An index in memory: the ids it holds and whether it is an IndexIDMap.
EmptyIndex == [idmap |-> FALSE, ids |-> {}]

\* The file of a tenant: st is "absent", "ok" (a complete index image, ids)
\* or "partial" (truncated / half written / overwritten by two writers);
\* writers are the tasks inside faiss.write_index; prev is the last complete
\* image, kept only to state what a reader should have seen.
NoFile == [st |-> "absent", ids |-> {}, writers |-> {}, dirty |-> FALSE, prev |-> {}]

\* VectorStore.__init__ with one path for all tenants.
index_path_Shared(tenant_id) == 1

\* VectorStore.__init__, line 13: the index file of a store is the one named
\* after its tenant, FAISS_STORAGE_PATH/<tenant_id>.index.
index_path(tenant_id) == tenant_id

\* VectorStore.load_index: read the file if it exists; an unreadable file
\* raises inside faiss.read_index, is logged, and a new empty index is used.
load_index(f) ==
  IF f.st = "absent" THEN EmptyIndex
  ELSE IF f.st = "ok" THEN [idmap |-> TRUE, ids |-> f.ids]
  ELSE EmptyIndex

\* add_vectors into a new index: the vectors loaded from the file are dropped.
add_vectors_Replace(index, ids) == [idmap |-> TRUE, ids |-> ids]

\* VectorStore.add_vectors up to the call of _save_index.
add_vectors(index, ids) == [idmap |-> TRUE, ids |-> index.ids \cup ids]

\* faiss.write_index opens index_path for writing, which truncates it.
OpenForWrite(f, p) ==
  [st |-> "partial", ids |-> {}, writers |-> f.writers \cup {p},
   dirty |-> (f.writers # {}),
   prev |-> IF f.st = "ok" THEN f.ids ELSE f.prev]

\* The images the file can hold when writer p closes it: p's index when no
\* other writer touched the file meanwhile; otherwise p's index (the other
\* writer's bytes are not on the disk yet, or p's went over them) or a mix of
\* the two.  Writers still inside write_index stay in writers.
CloseAfterWrite(f, p, index) ==
  LET rest == f.writers \ {p}
      good == [st |-> "ok", ids |-> index.ids, writers |-> rest,
               dirty |-> (rest # {}), prev |-> index.ids]
      bad  == [st |-> "partial", ids |-> {}, writers |-> rest, dirty |-> f.dirty,
               prev |-> IF f.st = "ok" THEN f.ids ELSE f.prev]
  IN IF f.dirty THEN {good, bad} ELSE {good}

\* The images the file can hold when writer p dies inside write_index: the
\* file as it is, or, when it held the whole image of a writer that closed
\* meanwhile, that image with some of p's bytes over it.
AbortWrite(f, p) ==
  LET rest == f.writers \ {p}
  IN {[f EXCEPT !.writers = rest]}
       \cup IF f.st = "ok"
            THEN {[st |-> "partial", ids |-> {}, writers |-> rest, dirty |-> f.dirty,
                   prev |-> f.ids]}
            ELSE {}

\* ------------------------------------------------------------ the session
EmptySession == [sources |-> {}, documents |-> {}, chunks |-> {}]
NoLocals == [source |-> NULL, document |-> NULL, nchunks |-> 0,
             chunk_ids |-> <<>>, index |-> EmptyIndex, added |-> FALSE]
NoResult == [kind |-> "none", message |-> "", document_id |-> NULL,
             chunks |-> 0, keys |-> {}]
NoQuery == [kind |-> "none"]
NoCall == [fn |-> "none"]
NoResponse == [kind |-> "none"]
NoArgs == [tenant_id |-> 1, source_id |-> "doc1", version |-> 1, content |-> 0]

Returned(msg, doc) ==
  [kind |-> "return", message |-> msg, document_id |-> doc, chunks |-> 0,
   keys |-> {"message", "document_id"}]
Raised(exc) ==
  [kind |-> "raise", message |-> exc, document_id |-> NULL, chunks |-> 0,
   keys |-> {}]

SeqToSet(s) == {s[i] : i \in 1..Len(s)}

Init ==
  /\ pc = [p \in Procs |-> "idle"]
  /\ args = [p \in Procs |-> NoArgs]
  /\ sess = [p \in Procs |-> EmptySession]
  /\ loc = [p \in Procs |-> NoLocals]
  /\ result = [p \in Procs |-> NoResult]
  /\ prior = [p \in Procs |-> {}]
  /\ started = 0
  /\ sources = {}
  /\ documents = {}
  /\ chunks = {}
  /\ seq = [source |-> 1, document |-> 1, chunk |-> 1]
  /\ drawn = <<>>
  /\ file = [t \in Tenants |-> NoFile]
  /\ today = 0
  /\ qres = NoQuery
  /\ call = NoCall
  /\ resp = NoResponse

\* ------------------------------------------------------- ingest_knowledge
\* ingest_knowledge_async: a free worker picks a task up and opens a session.
Free(p) == pc[p] \in {"idle", "done"}

\* Tenants are interchangeable: the first task is for tenant 1, and a task is
\* for a tenant already served (one with a task, a row or an index file) or
\* for the next one.
TenantsServed ==
  {args[p].tenant_id : p \in {q \in Procs : pc[q] # "idle"}}
    \cup {s.tenant_id : s \in sources}
    \cup {t \in Tenants : file[t].st # "absent"}

\* Versions are compared for equality only, so they are interchangeable too:
\* a task names a version already in use or the next one.
VersionsUsed ==
  {args[p].version : p \in {q \in Procs : pc[q] # "idle"}}
    \cup {d.version : d \in documents}

Start(p, a) ==
  /\ Free(p)
  /\ a.tenant_id <= Cardinality(TenantsServed) + 1
  /\ a.version <= Cardinality(VersionsUsed) + 1
  /\ started' = started + 1
  /\ args' = [args EXCEPT ![p] = a]
  /\ prior' = [q \in Procs |-> IF q = p THEN {r \in Procs \ {p} : pc[r] = "done"}
                                ELSE prior[q] \ {p}]
  /\ loc' = [loc EXCEPT ![p] = NoLocals]
  /\ result' = [result EXCEPT ![p] = NoResult]
  /\ pc' = [pc EXCEPT ![p] = "source"]
  /\ UNCHANGED <<sess, sources, documents, chunks, seq, drawn, file, today, qres, call, resp>>

\* Lines 15-20: look the KnowledgeSource of (tenant, source_id) up among the
\* committed rows and the rows of the session.
ResolveSource(p) ==
  /\ pc[p] = "source"
  /\ LET a == args[p]
         found == {s \in sources \cup sess[p].sources :
                     s.tenant_id = a.tenant_id /\ s.source_id = a.source_id}
     IN IF found # {}
        THEN /\ \E s \in found : loc' = [loc EXCEPT ![p].source = s.id]
             /\ pc' = [pc EXCEPT ![p] = "document"]
        ELSE /\ pc' = [pc EXCEPT ![p] = "source_insert"]
             /\ UNCHANGED loc
  /\ UNCHANGED <<args, sess, result, prior, sources, documents, chunks, seq, drawn, file, started, today, qres, call, resp>>

\* Lines 21-28: no row was found, so insert a KnowledgeSource and flush it.
InsertSource(p) ==
  /\ pc[p] = "source_insert"
  /\ LET a == args[p]
     IN /\ sess' = [sess EXCEPT ![p].sources = @ \cup
                     {[id |-> seq.source, tenant_id |-> a.tenant_id,
                       source_id |-> a.source_id]}]
        /\ loc' = [loc EXCEPT ![p].source = seq.source]
        /\ seq' = [seq EXCEPT !.source = @ + 1]
  /\ pc' = [pc EXCEPT ![p] = "document"]
  /\ UNCHANGED <<args, result, prior, sources, documents, chunks, drawn, file, started, today, qres, call, resp>>

\* Lines 30-37: look the Document of (tenant, source, version) up and return
\* it when there is one.  Returning closes the session.
CheckDocument(p) ==
  /\ pc[p] = "document"
  /\ LET a == args[p]
         found == {d \in documents \cup sess[p].documents :
                     /\ d.tenant_id = a.tenant_id
                     /\ d.source_id = a.source_id
                     /\ d.version = a.version}
     IN IF found # {}
        THEN /\ \E d \in found :
                  result' = [result EXCEPT ![p] = Returned("Document already exists", d.id)]
             /\ sess' = [sess EXCEPT ![p] = EmptySession]
             /\ pc' = [pc EXCEPT ![p] = "done"]
        ELSE /\ pc' = [pc EXCEPT ![p] = "document_insert"]
             /\ UNCHANGED <<result, sess>>
  /\ UNCHANGED <<args, loc, prior, sources, documents, chunks, seq, drawn, file, started, today, qres, call, resp>>

\* Lines 39-46: no row was found, so insert a Document and flush it.
InsertDocument(p) ==
  /\ pc[p] = "document_insert"
  /\ LET a == args[p]
     IN /\ sess' = [sess EXCEPT ![p].documents = @ \cup
                     {[id |-> seq.document, tenant_id |-> a.tenant_id,
                       knowledge_source_id |-> loc[p].source,
                       source_id |-> a.source_id, version |-> a.version]}]
        /\ loc' = [loc EXCEPT ![p].document = seq.document]
        /\ seq' = [seq EXCEPT !.document = @ + 1]
  /\ pc' = [pc EXCEPT ![p] = "chunk"]
  /\ UNCHANGED <<args, result, prior, sources, documents, chunks, drawn, file, started, today, qres, call, resp>>

\* Lines 48-55: chunk the content; no chunks returns at once (and closes the
\* session); otherwise embed the chunks and load the tenant's index.
ChunkEmbedLoad(p) ==
  /\ pc[p] = "chunk"
  /\ LET a == args[p]
         text_chunks == chunk_text(a.content, CHUNK_SIZE, CHUNK_OVERLAP)
     IN IF Len(text_chunks) = 0
        THEN /\ result' = [result EXCEPT ![p] =
                            Returned("No content to ingest", loc[p].document)]
             /\ sess' = [sess EXCEPT ![p] = EmptySession]
             /\ pc' = [pc EXCEPT ![p] = "done"]
             /\ UNCHANGED loc
        ELSE /\ loc' = [loc EXCEPT ![p].nchunks = Len(text_chunks),
                                   ![p].index = load_index(file[index_path(a.tenant_id)])]
             /\ pc' = [pc EXCEPT ![p] = "insert"]
             /\ UNCHANGED <<result, sess>>
  /\ UNCHANGED <<args, prior, sources, documents, chunks, seq, drawn, file, started, today, qres, call, resp>>

\* Lines 58-69 with a commit in place of the flush of line 68: the chunk row
\* is committed as soon as it is inserted.
InsertChunk_Autocommit(p) ==
  /\ pc[p] = "insert"
  /\ LET a == args[p]
         i == Len(loc[p].chunk_ids)
     IN /\ chunks' = chunks \cup
                     {[id |-> seq.chunk, tenant_id |-> a.tenant_id,
                       document_id |-> loc[p].document, chunk_index |-> i,
                       source_id |-> a.source_id, version |-> a.version,
                       faiss_id |-> NULL, is_deprecated |-> FALSE, last_updated_at |-> today]}
        /\ loc' = [loc EXCEPT ![p].chunk_ids = Append(@, seq.chunk)]
        /\ seq' = [seq EXCEPT !.chunk = @ + 1]
        /\ drawn' = Append(drawn, a.tenant_id)
        /\ pc' = [pc EXCEPT ![p] = IF i + 1 = loc[p].nchunks THEN "commit" ELSE "insert"]
  /\ UNCHANGED <<args, result, prior, sess, sources, documents, file, started, today, qres, call, resp>>

\* Lines 58-69, one iteration: insert and flush one DocumentChunk row.
InsertChunk(p) ==
  /\ pc[p] = "insert"
  /\ LET a == args[p]
         i == Len(loc[p].chunk_ids)
     IN /\ sess' = [sess EXCEPT ![p].chunks = @ \cup
                     {[id |-> seq.chunk, tenant_id |-> a.tenant_id,
                       document_id |-> loc[p].document, chunk_index |-> i,
                       source_id |-> a.source_id, version |-> a.version,
                       faiss_id |-> NULL, is_deprecated |-> FALSE, last_updated_at |-> today]}]
        /\ loc' = [loc EXCEPT ![p].chunk_ids = Append(@, seq.chunk)]
        /\ seq' = [seq EXCEPT !.chunk = @ + 1]
        /\ drawn' = Append(drawn, a.tenant_id)
        /\ pc' = [pc EXCEPT ![p] = IF i + 1 = loc[p].nchunks THEN "commit" ELSE "insert"]
  /\ UNCHANGED <<args, result, prior, sources, documents, chunks, file, started, today, qres, call, resp>>

\* CommitRows without the commit of line 71: the rows stay pending until the
\* commit of line 80.
CommitRows_Late(p) ==
  /\ pc[p] = "commit"
  /\ pc' = [pc EXCEPT ![p] = "add"]
  /\ UNCHANGED <<args, sess, loc, result, prior, sources, documents, chunks, seq, drawn, file,
                 started, today, qres, call, resp>>

\* Line 71: db.commit() of the source, the document and the chunk rows.
CommitRows(p) ==
  /\ pc[p] = "commit"
  /\ sources' = sources \cup sess[p].sources
  /\ documents' = documents \cup sess[p].documents
  /\ chunks' = chunks \cup sess[p].chunks
  /\ sess' = [sess EXCEPT ![p] = EmptySession]
  /\ pc' = [pc EXCEPT ![p] = "add"]
  /\ UNCHANGED <<args, loc, result, prior, seq, drawn, file, started, today, qres, call, resp>>

\* Lines 73-74: add the vectors under the chunk ids to the index in memory
\* and start writing the index over the tenant's file.
AddVectors(p) ==
  /\ pc[p] = "add"
  /\ LET t == index_path(args[p].tenant_id)
     IN /\ loc' = [loc EXCEPT ![p].index = add_vectors(@, SeqToSet(loc[p].chunk_ids))]
        /\ file' = [file EXCEPT ![t] = OpenForWrite(@, p)]
  /\ pc' = [pc EXCEPT ![p] = "saving"]
  /\ UNCHANGED <<args, sess, result, prior, sources, documents, chunks, seq, drawn, started, today, qres, call, resp>>

\* _save_index: faiss.write_index finishes and closes the file, and
\* add_vectors returns (added: the call is past line 74).
SaveIndex(p) ==
  /\ pc[p] = "saving"
  /\ LET t == index_path(args[p].tenant_id)
     IN \E f \in CloseAfterWrite(file[t], p, loc[p].index) :
          file' = [file EXCEPT ![t] = f]
  /\ loc' = [loc EXCEPT ![p].added = TRUE]
  /\ pc' = [pc EXCEPT ![p] = "mark"]
  /\ UNCHANGED <<args, sess, result, prior, sources, documents, chunks, seq, drawn, started, today, qres, call, resp>>

\* MarkAndReturn with the position of the vector in the document written to
\* faiss_id, as if the vectors had been added without ids.
MarkAndReturn_ByPosition(p) ==
  /\ pc[p] = "mark"
  /\ LET ids == SeqToSet(loc[p].chunk_ids)
     IN chunks' = {IF c.id \in ids THEN [c EXCEPT !.faiss_id = c.chunk_index + 1] ELSE c :
                    c \in chunks \cup sess[p].chunks}
  /\ sources' = sources \cup sess[p].sources
  /\ documents' = documents \cup sess[p].documents
  /\ sess' = [sess EXCEPT ![p] = EmptySession]
  /\ result' = [result EXCEPT ![p] = Raised("NameError")]
  /\ loc' = [loc EXCEPT ![p].index = EmptyIndex]
  /\ pc' = [pc EXCEPT ![p] = "done"]
  /\ UNCHANGED <<args, prior, seq, drawn, file, started, today, qres, call, resp>>

\* Lines 76-82: set faiss_id on every chunk row of chunk_ids that the session
\* sees and commit; then the return expression reads text_chunks, a name that
\* is not defined in ingest_knowledge, so the call raises NameError and the
\* task closes its session.
MarkAndReturn(p) ==
  /\ pc[p] = "mark"
  /\ LET ids == SeqToSet(loc[p].chunk_ids)
     IN chunks' = {IF c.id \in ids THEN [c EXCEPT !.faiss_id = c.id] ELSE c :
                    c \in chunks \cup sess[p].chunks}
  /\ sources' = sources \cup sess[p].sources
  /\ documents' = documents \cup sess[p].documents
  /\ sess' = [sess EXCEPT ![p] = EmptySession]
  /\ result' = [result EXCEPT ![p] = Raised("NameError")]
  /\ loc' = [loc EXCEPT ![p].index = EmptyIndex]
  /\ pc' = [pc EXCEPT ![p] = "done"]
  /\ UNCHANGED <<args, prior, seq, drawn, file, started, today, qres, call, resp>>

\* A step of the call fails (the embedder, the database or the disk raises,
\* or the worker dies): the task raises and its session is closed, which
\* rolls back what it had not committed.  A writer that dies inside
\* faiss.write_index leaves the file with what has been written to it.
Running == {"source", "source_insert", "document", "document_insert", "chunk",
            "insert", "commit", "add", "saving", "mark"}

Fail(p) ==
  /\ pc[p] \in Running
  /\ result' = [result EXCEPT ![p] = Raised("Exception")]
  /\ sess' = [sess EXCEPT ![p] = EmptySession]
  /\ loc' = [loc EXCEPT ![p].index = EmptyIndex]
  /\ IF pc[p] = "saving"
     THEN LET t == index_path(args[p].tenant_id)
          IN \E f \in AbortWrite(file[t], p) : file' = [file EXCEPT ![t] = f]
     ELSE file' = file
  /\ pc' = [pc EXCEPT ![p] = "done"]
  /\ UNCHANGED <<args, prior, sources, documents, chunks, seq, drawn, started, today, qres, call, resp>>

\* ingest_knowledge_async has returned or raised: the outcome goes to the
\* result backend and the worker is free for the next task.
Collect(p) ==
  /\ pc[p] = "done"
  /\ pc' = [pc EXCEPT ![p] = "idle"]
  /\ args' = [args EXCEPT ![p] = NoArgs]
  /\ loc' = [loc EXCEPT ![p] = NoLocals]
  /\ result' = [result EXCEPT ![p] = NoResult]
  /\ prior' = [q \in Procs |-> IF q = p THEN {} ELSE prior[q] \ {p}]
  /\ UNCHANGED <<sess, sources, documents, chunks, seq, drawn, file, started, today, qres, call, resp>>

IngestStep(p) ==
  \/ ResolveSource(p)
  \/ InsertSource(p)
  \/ CheckDocument(p)
  \/ InsertDocument(p)
  \/ ChunkEmbedLoad(p)
  \/ InsertChunk(p)
  \/ CommitRows(p)
  \/ AddVectors(p)
  \/ SaveIndex(p)
  \/ MarkAndReturn(p)

\* ------------------------------------------------------------- retrieval
\* Squared L2 distance, in thousandths, between the embedding of query q and
\* the vector stored under id: the embedder is a black box, so each query
\* stands for one assignment of distances to the stored vectors: three
\* distances, with two of the first three vectors at the same distance, and
\* the later vectors a little further, each at a distance of its own.
Distance(q, id) == (((id + q) \div 2) % 3) * 500 + (IF id > 3 THEN id ELSE 0)

\* The k nearest ids of S in ascending distance; equal distances may come
\* out in any order.
RECURSIVE Nearest(_, _, _)
Nearest(S, q, k) ==
  IF k = 0 \/ S = {} THEN {<<>>}
  ELSE LET closest == {i \in S : \A j \in S : Distance(q, i) <= Distance(q, j)}
       IN UNION {{<<i>> \o rest : rest \in Nearest(S \ {i}, q, k - 1)} : i \in closest}

\* VectorStore.search: the possible (distances[0], indices[0]), as the
\* sequence of ids; an empty index returns empty arrays; faiss refuses k < 1.
SearchRaises(index, k) == index.ids # {} /\ Min(k, Cardinality(index.ids)) < 1

\* search without line 57: faiss is asked for k results and fills the
\* places it has no vector for with -1.
search_Padded(index, q, k) ==
  IF index.ids = {} THEN {<<>>}
  ELSE {found \o [i \in 1..(k - Len(found)) |-> -1] :
          found \in Nearest(index.ids, q, Min(k, Cardinality(index.ids)))}

search(index, q, k) ==
  IF index.ids = {} THEN {<<>>}
  ELSE Nearest(index.ids, q, Min(k, Cardinality(index.ids)))

\* Line 8 of calculate_freshness_score subtracts last_updated_at from
\* datetime.utcnow(), which has no time zone: the subtraction raises
\* TypeError when last_updated_at carries one.  The column is
\* DateTime(timezone=True), so that is what the driver of a database with
\* time zones (PostgreSQL, the configured one) hands back; aware tells which
\* kind the driver gives.  None returns at line 6, before the subtraction.
FreshnessRaises(last_updated_at, aware) == last_updated_at # NoTimestamp /\ aware

\* calculate_freshness_score with the sign of the boost reversed: the score
\* falls with age.
calculate_freshness_score_Decay(last_updated_at, freshness_weight, aware) ==
  IF last_updated_at = NoTimestamp THEN 36500
  ELSE IF aware THEN "TypeError"
  ELSE Max(3650, 36500 - (today - last_updated_at) * freshness_weight)

\* calculate_freshness_score, times 36500: 1.0 for None, TypeError for a
\* timestamp with a time zone, else max(0.1, 1 + days / 365 * weight), the
\* weight in hundredths.
calculate_freshness_score(last_updated_at, freshness_weight, aware) ==
  IF last_updated_at = NoTimestamp THEN 36500
  ELSE IF aware THEN "TypeError"
  ELSE Max(3650, 36500 + (today - last_updated_at) * freshness_weight)

\* Lines 41-47 with the penalty of line 45 turned into a bonus.
FinalScore_Bonus(c, distance, freshness_weight, aware) ==
  IF FreshnessRaises(c.last_updated_at, aware) THEN "TypeError"
  ELSE [num |-> (IF c.is_deprecated THEN 11 ELSE 10)
                  * calculate_freshness_score(c.last_updated_at, freshness_weight, aware),
        den |-> 1000 + Max(distance, 1)]

\* Lines 41-47 of retrieve_chunks.  final_score = similarity * freshness with
\* similarity = 1 / (1 + max(distance, 0.001)), times 0.1 when deprecated.
\* The score is the fraction num / (den * 365); the TypeError of line 42
\* leaves the lines.
FinalScore(c, distance, freshness_weight, aware) ==
  IF FreshnessRaises(c.last_updated_at, aware) THEN "TypeError"
  ELSE [num |-> (IF c.is_deprecated THEN 1 ELSE 10)
                  * calculate_freshness_score(c.last_updated_at, freshness_weight, aware),
        den |-> 1000 + Max(distance, 1)]

ScoreLess(x, y) == x.num * y.den < y.num * x.den

\* Lines 38-39 with the flag ignored: no chunk is left out for being deprecated.
Excluded_Never(chunk, exclude_deprecated) == FALSE

\* Lines 38-39: a deprecated chunk is left out when exclude_deprecated is set.
Excluded(chunk, exclude_deprecated) == exclude_deprecated /\ chunk.is_deprecated

\* Line 27, negated: the candidate goes on to the SELECT of lines 30-33.
PassesLine27(faiss_ids, j) == faiss_ids[j] # -1 /\ faiss_ids[j] < Len(faiss_ids)

\* The position of the first candidate from position i on that is not
\* skipped at line 27; Len(faiss_ids) + 1 when the loop ends without one.
NextSelect(faiss_ids, i) ==
  LET left == {j \in i..Len(faiss_ids) : PassesLine27(faiss_ids, j)}
  IN IF left = {} THEN Len(faiss_ids) + 1
     ELSE CHOOSE j \in left : \A k \in left : j <= k

\* list.sort(key=final_score, reverse=True): a stable descending sort.
RECURSIVE InsertDesc(_, _)
InsertDesc(sorted, x) ==
  IF sorted = <<>> THEN <<x>>
  ELSE IF ScoreLess(Head(sorted).final_score, x.final_score) THEN <<x>> \o sorted
  ELSE <<Head(sorted)>> \o InsertDesc(Tail(sorted), x)

RECURSIVE SortDesc(_)
\* Line 56 left out: the candidates stay in the order of the search.
SortDesc_Unsorted(s) == s

SortDesc(s) ==
  IF s = <<>> THEN <<>>
  ELSE InsertDesc(SortDesc(SubSeq(s, 1, Len(s) - 1)), s[Len(s)])

\* s[:k] of Python.
Slice(s, k) ==
  IF k >= 0 THEN SubSeq(s, 1, Min(k, Len(s)))
  ELSE SubSeq(s, 1, Max(Len(s) + k, 0))

\* The call o of retrieve_chunks goes on from position i of the loop with
\* the candidates cands: to the next SELECT, or, when the loop ends, through
\* lines 56-57 to its return.
Continue(o, cands, i) ==
  LET j == NextSelect(o.faiss_ids, i)
  IN IF j <= Len(o.faiss_ids)
     THEN [o EXCEPT !.kind = "running", !.i = j, !.cands = cands]
     ELSE [o EXCEPT !.kind = "return", !.i = j, !.cands = cands,
                    !.items = Slice(SortDesc(cands), o.top_k)]

\* retrieve_chunks with a load_index that, on an unreadable file, saves the
\* new empty index over it.
retrieve_chunks_Rebuilds(t, q, top_k, freshness_weight, exclude_deprecated, embedder_up, aware) ==
  /\ LET index == load_index(file[index_path(t)])
         base == [tenant_id |-> t, top_k |-> top_k, query |-> q,
                  freshness_weight |-> freshness_weight,
                  exclude_deprecated |-> exclude_deprecated, aware |-> aware,
                  kind |-> "raise", at |-> "", loaded |-> {}, faiss_ids |-> <<>>,
                  i |-> 1, cands |-> <<>>, items |-> <<>>]
     IN IF ~embedder_up
        THEN qres' = [base EXCEPT !.at = "embed_text"]
        ELSE IF SearchRaises(index, top_k * 2)
        THEN qres' = [base EXCEPT !.at = "search", !.loaded = index.ids]
        ELSE \E faiss_ids \in search(index, q, top_k * 2) :
               qres' = Continue([base EXCEPT !.loaded = index.ids,
                                             !.faiss_ids = faiss_ids], <<>>, 1)
  /\ file' = IF embedder_up /\ file[index_path(t)].st = "partial"
                  /\ file[index_path(t)].writers = {}
             THEN [file EXCEPT ![index_path(t)] =
                     [st |-> "ok", ids |-> {}, writers |-> {}, dirty |-> FALSE,
                      prev |-> {}]]
             ELSE file
  /\ UNCHANGED <<pc, args, sess, loc, result, prior, started, sources, documents,
                 chunks, seq, drawn, today, call>>

\* retrieve_chunks(db, tenant_id, query, top_k, freshness_weight,
\* exclude_deprecated) from its call to its first SELECT, lines 18-28: embed
\* the query, read the tenant's index file, search it, and pass the
\* candidates that line 27 skips.  With no candidate left for a SELECT the
\* call returns at once.  aware tells whether the timestamps that the
\* session of the call reads carry a time zone (the driver of db).
\* embedder_up tells whether
\* embedding_service.embed_text (line 18) gives a vector or raises (the
\* model cannot be loaded, or encode fails); nothing in retrieve_chunks
\* catches an exception, so one raised at line 18 or by faiss at line 23
\* leaves the call.
retrieve_chunks(t, q, top_k, freshness_weight, exclude_deprecated, embedder_up, aware) ==
  /\ LET index == load_index(file[index_path(t)])
         base == [tenant_id |-> t, top_k |-> top_k, query |-> q,
                  freshness_weight |-> freshness_weight,
                  exclude_deprecated |-> exclude_deprecated, aware |-> aware,
                  kind |-> "raise", at |-> "", loaded |-> {}, faiss_ids |-> <<>>,
                  i |-> 1, cands |-> <<>>, items |-> <<>>]
     IN IF ~embedder_up
        THEN qres' = [base EXCEPT !.at = "embed_text"]
        ELSE IF SearchRaises(index, top_k * 2)
        THEN qres' = [base EXCEPT !.at = "search", !.loaded = index.ids]
        ELSE \E faiss_ids \in search(index, q, top_k * 2) :
               qres' = Continue([base EXCEPT !.loaded = index.ids,
                                             !.faiss_ids = faiss_ids], <<>>, 1)
  /\ UNCHANGED <<pc, args, sess, loc, result, prior, started, sources, documents,
                 chunks, seq, drawn, file, today, call>>

\* Lines 30-54 of retrieve_chunks for the candidate at position qres.i, and
\* on to the next SELECT or to the return: the SELECT reads the rows
\* committed at this moment, the score reads the clock of this moment.
\* A TypeError of line 42 leaves the call.
SelectCandidate ==
  /\ qres # NoQuery /\ qres.kind = "running"
  /\ LET faiss_id == qres.faiss_ids[qres.i]
         rows == {c \in chunks : c.tenant_id = qres.tenant_id /\ c.id = faiss_id}
     IN IF rows = {} THEN qres' = Continue(qres, qres.cands, qres.i + 1)
        ELSE LET chunk == CHOOSE c \in rows : TRUE
             IN IF Excluded(chunk, qres.exclude_deprecated)
                THEN qres' = Continue(qres, qres.cands, qres.i + 1)
                ELSE IF FreshnessRaises(chunk.last_updated_at, qres.aware)
                THEN qres' = [qres EXCEPT !.kind = "raise",
                                          !.at = "calculate_freshness_score"]
                ELSE qres' = Continue(qres,
                       Append(qres.cands,
                              [id |-> chunk.id, tenant_id |-> chunk.tenant_id,
                               is_deprecated |-> chunk.is_deprecated, pos |-> qres.i,
                               final_score |-> FinalScore(chunk, Distance(qres.query, faiss_id),
                                                          qres.freshness_weight,
                                                          qres.aware)]),
                       qres.i + 1)
  /\ UNCHANGED <<pc, args, sess, loc, result, prior, started, sources, documents,
                 chunks, seq, drawn, file, today, call>>

\* The fixed response of lines 27-31 of query_knowledge.
NoInformation ==
  [kind |-> "return", answer |-> "No relevant information found in the knowledge base.",
   sources |-> <<>>, retrieved_chunks |-> 0, generated |-> 0]

\* Lines 26-49 without the test of line 26: generate_answer is called on
\* whatever retrieve_chunks returned.
ComposeResponse_NoGuard(chunks_data) ==
  [kind |-> "return", answer |-> "generated",
   sources |-> [i \in 1..Len(chunks_data) |-> chunks_data[i].id],
   retrieved_chunks |-> Len(chunks_data), generated |-> 1]

\* Lines 26-49 of query_knowledge: the fixed response when chunks_data is
\* empty, else the answer of generate_answer (which is called once, and
\* catches what the generator raises) with one source per chunk.  generated
\* counts the calls of generate_answer.
ComposeResponse(chunks_data) ==
  IF Len(chunks_data) = 0 THEN NoInformation
  ELSE [kind |-> "return", answer |-> "generated",
        sources |-> [i \in 1..Len(chunks_data) |-> chunks_data[i].id],
        retrieved_chunks |-> Len(chunks_data), generated |-> 1]

\* What query_knowledge makes of the call o of retrieve_chunks: nothing
\* while it runs; an exception of retrieve_chunks is not caught, it leaves
\* the endpoint; a list returned goes through lines 26-49.
Response(o) ==
  IF o.kind = "running" THEN NoResponse
  ELSE IF o.kind = "raise"
  THEN [kind |-> "raise", answer |-> "", sources |-> <<>>,
        retrieved_chunks |-> 0, generated |-> 0]
  ELSE ComposeResponse(o.items)

\* query_knowledge: call retrieve_chunks (lines 17-24), which runs to its
\* first SELECT or to its end.
query_knowledge(t, q, top_k, freshness_weight, exclude_deprecated, embedder_up, aware) ==
  /\ retrieve_chunks(t, q, top_k, freshness_weight, exclude_deprecated, embedder_up, aware)
  /\ resp' = Response(qres')

\* query_knowledge while retrieve_chunks runs: the next SELECT of the loop.
query_knowledge_Select ==
  /\ SelectCandidate
  /\ resp' = Response(qres')

\* ------------------------------------------------------------ environment
\* A caller marks a chunk as deprecated (a write to the metadata store).
Deprecate(id) ==
  /\ \E c \in chunks : c.id = id /\ ~c.is_deprecated
  /\ Cardinality({c \in chunks : c.is_deprecated}) < MaxDeprecated
  /\ chunks' = {IF c.id = id THEN [c EXCEPT !.is_deprecated = TRUE] ELSE c : c \in chunks}
  /\ UNCHANGED <<pc, args, sess, loc, result, prior, started, sources, documents,
                 seq, drawn, file, today, qres, call, resp>>

\* A day passes.  Only the age of a chunk is read, so the days count from the
\* first chunk row.
Tick ==
  /\ today < MaxDay
  /\ chunks # {}
  /\ today' = today + 1
  /\ UNCHANGED <<pc, args, sess, loc, result, prior, started, sources, documents,
                 chunks, seq, drawn, file, qres, call, resp>>

\* query_knowledge hands its response to the caller.
Respond ==
  /\ qres # NoQuery /\ qres.kind # "running"
  /\ qres' = NoQuery
  /\ resp' = NoResponse
  /\ UNCHANGED <<pc, args, sess, loc, result, prior, started, sources, documents,
                 chunks, seq, drawn, file, today, call>>

\* ---------------------------------------------------------- specifications
\* Spec: one worker runs up to MaxTasks tasks one after the other, callers
\* deprecate chunks, days pass, between the queries and between the reads of
\* a query, and queries are made with the default arguments or with one
\* argument that is not the default.
\* The embedding model is up or down at each query; line 18 comes before any
\* other argument is read, so the queries made while it is down are those
\* with the default arguments.
\* The session of a query hands timestamps back with a time zone or without
\* (aware); line 42 raises on the first one that has a time zone, whatever
\* the other arguments, so the queries made with such a session are those
\* with the default arguments too.
\* A task starts when the response of the last query has been handed over.
Quiet == qres = NoQuery /\ \A p \in Procs : pc[p] = "idle"

\* At most one of the arguments query, top_k and exclude_deprecated is not
\* the default.
OneArgument(q, k, x) ==
  \/ q = 0 /\ k = DefaultTopK
  \/ q = 0 /\ x
  \/ k = DefaultTopK /\ x

\* No task runs, and no response waits to be handed over: the moments at
\* which the other sessions commit and the days pass, between two queries
\* and between two reads of a query.
Between ==
  /\ qres = NoQuery \/ qres.kind = "running"
  /\ \A p \in Procs : pc[p] = "idle"

Next ==
  \/ \E a \in IngestArgs(MaxContentChunks) : Quiet /\ started < MaxTasks /\ Start(1, a)
  \/ \E p \in Procs : IngestStep(p)
  \/ \E p \in Procs : Fail(p)
  \/ \E p \in Procs : Collect(p)
  \/ \E id \in 1..(MaxTasks * MaxContentChunks) : Between /\ Deprecate(id)
  \/ Between /\ Tick
  \/ \E t \in Tenants, q \in Queries, k \in TopKs, w \in Weights, x \in BOOLEAN,
        up \in BOOLEAN, aware \in BOOLEAN :
       /\ Quiet
       /\ t <= Cardinality(TenantsServed) + 1
       /\ OneArgument(q, k, x)
       /\ (up /\ ~aware) \/ (q = 0 /\ k = DefaultTopK /\ x)
       /\ up \/ ~aware
       /\ query_knowledge(t, q, k, w, x, up, aware)
  \/ query_knowledge_Select
  \/ Respond

Spec == Init /\ [][Next]_vars

\* ConcSpec: the two workers run one task each, in any interleaving (one
\* after the other included), while queries with the default arguments of
\* QueryRequest, or with a smaller top_k, are made by the tenants that have
\* ingested, the embedding model being up.  Workers are interchangeable:
\* worker 1 starts first.
ConcNext ==
  \/ \E p \in Procs, a \in IngestArgs(MaxConcChunks) :
       /\ qres = NoQuery
       /\ pc[p] = "idle"
       /\ \A q \in Procs : q < p => pc[q] # "idle"
       /\ Start(p, a)
  \/ \E p \in Procs : (qres = NoQuery \/ qres.kind = "running") /\ IngestStep(p)
  \/ \E p \in Procs : (qres = NoQuery \/ qres.kind = "running") /\ Fail(p)
  \/ \E t \in TenantsServed, k \in ConcTopKs, aware \in BOOLEAN :
       qres = NoQuery /\ query_knowledge(t, 0, k, DefaultFreshnessWeight, TRUE, TRUE, aware)
  \/ query_knowledge_Select
  \/ Respond

ConcSpec == Init /\ [][ConcNext]_vars

\* QuerySpec: tenant 1 has ingested one document of MaxStored chunks (the
\* state in which ingest_knowledge leaves the store when it runs alone and
\* to its end), and then makes queries while callers deprecate chunks and
\* days pass, between the queries and between the SELECTs of a query.
QueryInit ==
  /\ pc = [p \in Procs |-> "idle"]
  /\ args = [p \in Procs |-> NoArgs]
  /\ sess = [p \in Procs |-> EmptySession]
  /\ loc = [p \in Procs |-> NoLocals]
  /\ result = [p \in Procs |-> NoResult]
  /\ prior = [p \in Procs |-> {}]
  /\ started = 1
  /\ sources = {[id |-> 1, tenant_id |-> 1, source_id |-> "doc1"]}
  /\ documents = {[id |-> 1, tenant_id |-> 1, knowledge_source_id |-> 1,
                   source_id |-> "doc1", version |-> 1]}
  /\ chunks = {[id |-> i, tenant_id |-> 1, document_id |-> 1, chunk_index |-> i - 1,
                source_id |-> "doc1", version |-> 1, faiss_id |-> i,
                is_deprecated |-> FALSE, last_updated_at |-> 0] : i \in 1..MaxStored}
  /\ seq = [source |-> 2, document |-> 2, chunk |-> MaxStored + 1]
  /\ drawn = [i \in 1..MaxStored |-> 1]
  /\ file = [t \in Tenants |->
               IF t = index_path(1)
               THEN [st |-> "ok", ids |-> 1..MaxStored, writers |-> {}, dirty |-> FALSE,
                     prev |-> 1..MaxStored]
               ELSE NoFile]
  /\ today = 0
  /\ qres = NoQuery
  /\ call = NoCall
  /\ resp = NoResponse

QueryNext ==
  \/ \E id \in 1..MaxStored : Between /\ Deprecate(id)
  \/ Between /\ Tick
  \/ \E q \in Queries, k \in TopKs, x \in BOOLEAN, aware \in BOOLEAN :
       Quiet /\ query_knowledge(1, q, k, DefaultFreshnessWeight, x, TRUE, aware)
  \/ query_knowledge_Select
  \/ Respond

QuerySpec == QueryInit /\ [][QueryNext]_vars

\* FnSpec: chunk_text and the scoring of lines 41-47 are called on their own,
\* on inputs drawn in the first state.
\* A scoring call takes two candidates (is_deprecated, last_updated_at and
\* the distance of the search) and two freshness weights; QueryRequest puts
\* no limit on freshness_weight, so negative weights are among them.  A
\* last_updated_at is None or a timestamp, and the timestamps of a call carry
\* a time zone (aware) or none.
FnWeights == {-100, -50, 0, DefaultFreshnessWeight, 50}
FnDistances == {0, 500}
FnCandidates ==
  [is_deprecated : BOOLEAN,
   last_updated_at : {NoTimestamp} \cup {365 * y : y \in 0..MaxAgeYears},
   distance : FnDistances]

ScoreCalls ==
  {[fn |-> "score", st |-> "called", a |-> a, b |-> b, w1 |-> w1, w2 |-> w2,
    aware |-> aware, scores |-> <<>>] :
     a \in FnCandidates, b \in FnCandidates, w1 \in FnWeights, w2 \in FnWeights,
     aware \in BOOLEAN}

\* A call of chunk_text takes a stream of n tokens, chunk_size >= 1 and
\* chunk_overlap >= 0, the overlap below the size or not.  It is at line 23
\* with start = 0 and no chunks.
ChunkCalls ==
  {[fn |-> "chunk_text", st |-> "loop", n |-> n, chunk_size |-> cs,
    chunk_overlap |-> co, start |-> 0, chunks |-> <<>>] :
     n \in 0..MaxTokens, cs \in 1..MaxChunkSize, co \in 0..MaxChunkSize}

\* tokens[a:b] of a list of n tokens, as the window [lo, hi) it takes.
PyIndex(n, i) == IF i < 0 THEN Max(n + i, 0) ELSE Min(i, n)

\* A slice that takes the token at b as well.
PySlice_Inclusive(n, a, b) == <<PyIndex(n, a), Max(PyIndex(n, a), PyIndex(n, b + 1))>>

PySlice(n, a, b) == <<PyIndex(n, a), Max(PyIndex(n, a), PyIndex(n, b))>>

\* Lines 23-32 without the break of lines 29-30.
ChunkIter_NoBreak ==
  /\ call.fn = "chunk_text" /\ call.st = "loop"
  /\ Len(call.chunks) <= MaxTokens
  /\ IF ~(call.start < call.n)
     THEN call' = [call EXCEPT !.st = "returned"]
     ELSE LET end == call.start + call.chunk_size
          IN call' = [call EXCEPT
               !.chunks = Append(@, PySlice(call.n, call.start, end)),
               !.start = @ + call.chunk_size - call.chunk_overlap]
  /\ UNCHANGED <<pc, args, sess, loc, result, prior, started, sources, documents,
                 chunks, seq, drawn, file, today, qres, resp>>

\* Lines 23-34, one pass of the while loop: leave it and return when start
\* has reached the end; else take a window, and return after the window that
\* reaches the end.  A call that has taken more windows than there are
\* tokens is not followed further: it never returns.
ChunkIter ==
  /\ call.fn = "chunk_text" /\ call.st = "loop"
  /\ Len(call.chunks) <= MaxTokens
  /\ IF ~(call.start < call.n)
     THEN call' = [call EXCEPT !.st = "returned"]
     ELSE LET end == call.start + call.chunk_size
              taken == Append(call.chunks, PySlice(call.n, call.start, end))
          IN IF end >= call.n
             THEN call' = [call EXCEPT !.chunks = taken, !.st = "returned"]
             ELSE call' = [call EXCEPT
                    !.chunks = taken,
                    !.start = @ + call.chunk_size - call.chunk_overlap]
  /\ UNCHANGED <<pc, args, sess, loc, result, prior, started, sources, documents,
                 chunks, seq, drawn, file, today, qres, resp>>

\* A call of VectorStore.search takes a loaded index, a query and k.
SearchCalls ==
  {[fn |-> "search", st |-> "called", ids |-> ids, query |-> q, k |-> k,
    found |-> <<>>] :
     ids \in SUBSET (1..MaxIndexed), q \in Queries, k \in 0..(MaxIndexed + 1)}

\* VectorStore.search, lines 49-59.
Search ==
  /\ call.fn = "search" /\ call.st = "called"
  /\ LET index == [idmap |-> call.ids # {}, ids |-> call.ids]
     IN IF SearchRaises(index, call.k)
        THEN call' = [call EXCEPT !.st = "raised"]
        ELSE \E found \in search(index, call.query, call.k) :
               call' = [call EXCEPT !.st = "returned", !.found = found]
  /\ UNCHANGED <<pc, args, sess, loc, result, prior, started, sources, documents,
                 chunks, seq, drawn, file, today, qres, resp>>

\* A ranking call takes the candidates that survived, in the order of the
\* search, and top_k.  The scores are fractions, two of them equal in value.
FnScores == {[num |-> 3, den |-> 2], [num |-> 1, den |-> 2], [num |-> 2, den |-> 4]}

CandidateLists(n) ==
  UNION {{[i \in 1..m |-> [pos |-> i, final_score |-> f[i]]] : f \in [1..m -> FnScores]}
          : m \in 0..n}

RankCalls ==
  {[fn |-> "rank", st |-> "called", candidates |-> c, top_k |-> k, items |-> <<>>] :
     c \in CandidateLists(MaxRanked), k \in 0..MaxRanked}

\* Lines 56-57: chunks.sort(key=final_score, reverse=True); chunks[:top_k].
Rank ==
  /\ call.fn = "rank" /\ call.st = "called"
  /\ call' = [call EXCEPT !.st = "returned",
                           !.items = Slice(SortDesc(call.candidates), call.top_k)]
  /\ UNCHANGED <<pc, args, sess, loc, result, prior, started, sources, documents,
                 chunks, seq, drawn, file, today, qres, resp>>

\* Lines 41-47 for both candidates under both weights; the TypeError of
\* line 42 leaves the call.
Score ==
  /\ call.fn = "score" /\ call.st = "called"
  /\ IF \/ FreshnessRaises(call.a.last_updated_at, call.aware)
        \/ FreshnessRaises(call.b.last_updated_at, call.aware)
     THEN call' = [call EXCEPT !.st = "raised"]
     ELSE call' = [call EXCEPT
            !.st = "returned",
            !.scores = [a1 |-> FinalScore(call.a, call.a.distance, call.w1, call.aware),
                        a2 |-> FinalScore(call.a, call.a.distance, call.w2, call.aware),
                        b1 |-> FinalScore(call.b, call.b.distance, call.w1, call.aware),
                        b2 |-> FinalScore(call.b, call.b.distance, call.w2, call.aware)]]
  /\ UNCHANGED <<pc, args, sess, loc, result, prior, started, sources, documents,
                 chunks, seq, drawn, file, today, qres, resp>>

FnInit ==
  /\ pc = [p \in Procs |-> "idle"]
  /\ args = [p \in Procs |-> NoArgs]
  /\ sess = [p \in Procs |-> EmptySession]
  /\ loc = [p \in Procs |-> NoLocals]
  /\ result = [p \in Procs |-> NoResult]
  /\ prior = [p \in Procs |-> {}]
  /\ started = 0
  /\ sources = {}
  /\ documents = {}
  /\ chunks = {}
  /\ seq = [source |-> 1, document |-> 1, chunk |-> 1]
  /\ drawn = <<>>
  /\ file = [t \in Tenants |-> NoFile]
  /\ today = 365 * MaxAgeYears
  /\ qres = NoQuery
  /\ call \in ScoreCalls \cup RankCalls \cup ChunkCalls \cup SearchCalls
  /\ resp = NoResponse

FnNext ==
  \/ Score
  \/ Rank
  \/ ChunkIter
  \/ Search

FnSpec == FnInit /\ [][FnNext]_vars

\* FnLive: the same calls, each of which keeps running: the interpreter takes
\* the next pass of the while loop of chunk_text as long as there is one.
FnLive == FnInit /\ [][FnNext]_vars /\ WF_vars(ChunkIter)

\* ------------------------------------------------------------------ claims
\* Task p ran ingest_knowledge to its last line (it was not cut short by a
\* failure of one of its steps).
Completed(p) == pc[p] = "done" /\ result[p].message # "Exception"
Indexed(p) == pc[p] = "done" /\ result[p].message = "NameError"
Persisted(t) == IF file[t].st = "ok" THEN file[t].ids ELSE {}

\* The complete images of the tenant's index at this moment: the file when
\* it is whole, else the image before the write and the images being written.
Snapshots(t) ==
  IF file[t].st = "ok" THEN {file[t].ids}
  ELSE {file[t].prev} \cup {loc[p].index.ids : p \in file[t].writers}

\* C1: every DocumentChunk row with a non-null faiss_id has an entry under
\* that id in its tenant's persisted index.  Stated for the states in which
\* every started call has run to its end.
C1_ConfirmedChunksAreIndexed ==
  (\A p \in Procs : pc[p] = "idle" \/ Completed(p)) =>
    \A c \in chunks : c.faiss_id # NULL => c.faiss_id \in Persisted(c.tenant_id)

\* C2: every id in a tenant's index file, and in an index image being
\* written to it, is the primary key of a committed DocumentChunk row of
\* that tenant, whatever calls have failed and wherever.
C2_NoVectorWithoutChunk ==
  \A t \in Tenants :
    \A id \in file[t].ids \cup UNION {loc[p].index.ids : p \in file[t].writers} :
      \E c \in chunks : c.id = id /\ c.tenant_id = t

C2_Witness ==
  \E t \in Tenants :
    /\ file[t].st = "ok" /\ Cardinality(file[t].ids) >= 2
    /\ \E p \in Procs : result[p].message = "Exception" /\ loc[p].chunk_ids # <<>>

\* C3: when two calls for one tenant have both written the index, the
\* persisted index holds the chunk ids of both.
C3_BothAddsPersist ==
  \A p, q \in Procs :
    (p # q /\ Indexed(p) /\ Indexed(q) /\ args[p].tenant_id = args[q].tenant_id) =>
      SeqToSet(loc[p].chunk_ids) \cup SeqToSet(loc[q].chunk_ids)
        \subseteq Persisted(args[p].tenant_id)

\* C4: a query that loads the index while a write of it is in progress sees
\* the whole index of before the write or the whole index being written.
C4_ReaderSeesWholeIndex ==
  [][( /\ qres = NoQuery /\ qres' # NoQuery /\ qres'.at # "embed_text"
       /\ file[qres'.tenant_id].writers # {} ) =>
       \E whole \in Snapshots(qres'.tenant_id) : qres'.loaded = whole]_vars

\* C5: two calls in sequence with the same arguments both yield a
\* document_id, and the same one.
C5_SameDocumentTwice ==
  \A p, q \in Procs :
    (p \in prior[q] /\ args[p] = args[q] /\ Completed(p) /\ Completed(q)) =>
      /\ result[p].kind = "return"
      /\ result[q].kind = "return"
      /\ result[p].document_id = result[q].document_id

\* C6: at most one Document row per (tenant_id, source_id, version).
C6_OneDocumentPerVersion ==
  \A d1, d2 \in documents :
    (d1.tenant_id = d2.tenant_id /\ d1.source_id = d2.source_id /\ d1.version = d2.version)
      => d1 = d2

\* C7: after a call failed with its chunk rows committed and a retry with
\* the same arguments returned, every chunk of the document is in the index
\* with faiss_id set.
C7_RetryReindexes ==
  \A p, q \in Procs :
    ( /\ p \in prior[q] /\ args[p] = args[q]
      /\ result[p].message = "Exception"
      /\ \E c \in chunks : c.document_id = loc[p].document
      /\ pc[q] = "done" /\ result[q].kind = "return" ) =>
      \A c \in chunks :
        c.document_id = result[q].document_id =>
          c.faiss_id # NULL /\ c.id \in Persisted(c.tenant_id)

\* C8: a call whose steps all succeed on content of N >= 1 chunks returns
\* the new document's id and the chunk count N.
C8_ReturnsIdAndCount ==
  \A p \in Procs :
    ( /\ Completed(p)
      /\ result[p].message # "Document already exists"
      /\ Len(chunk_text(args[p].content, CHUNK_SIZE, CHUNK_OVERLAP)) >= 1 ) =>
      /\ result[p].kind = "return"
      /\ result[p].document_id = loc[p].document
      /\ "chunks" \in result[p].keys
      /\ result[p].chunks = Len(chunk_text(args[p].content, CHUNK_SIZE, CHUNK_OVERLAP))

\* C9: a call on content of zero chunks returns success with a chunk count
\* of 0.
C9_EmptyContentCountsZero ==
  \A p \in Procs :
    ( /\ Completed(p)
      /\ result[p].message # "Document already exists"
      /\ Len(chunk_text(args[p].content, CHUNK_SIZE, CHUNK_OVERLAP)) = 0 ) =>
      /\ result[p].kind = "return"
      /\ "chunks" \in result[p].keys
      /\ result[p].chunks = 0

\* The rest of C9: such a call leaves the DocumentChunk table and the
\* tenant's index file as they were, and never loads an index.
C9_EmptyContentFrame ==
  [][\A p \in Procs :
      (pc[p] = "chunk" /\ pc'[p] = "done" /\ result'[p].kind = "return") =>
        chunks' = chunks /\ file' = file /\ loc'[p].index = EmptyIndex]_vars

\* C10: when the tenant's index holds n <= top_k chunks, all with metadata
\* rows and none deprecated, retrieve_chunks returns all n of them.
C10_ReturnsAllWhenFew ==
  (qres # NoQuery /\ qres.kind = "return") =>
    LET t == qres.tenant_id
        held == qres.loaded
    IN ( /\ Cardinality(held) <= qres.top_k
         /\ \A id \in held :
              \E c \in chunks : c.id = id /\ c.tenant_id = t /\ ~c.is_deprecated ) =>
       {qres.items[i].id : i \in 1..Len(qres.items)} = held

\* C11: a query with exclude_deprecated=True returns no chunk whose
\* is_deprecated flag is true, in every state of the tenant.
\* The flag is the one of the chunk returned, which is the one its row had
\* when the query read it.
C11_NoDeprecatedWhenExcluded ==
  /\ []( (qres # NoQuery /\ qres.kind = "return" /\ qres.exclude_deprecated) =>
          \A i \in 1..Len(qres.items) : ~qres.items[i].is_deprecated )
  /\ [][( /\ qres # NoQuery /\ qres.kind = "running" /\ qres.exclude_deprecated
           /\ qres' # NoQuery /\ Len(qres'.cands) > Len(qres.cands) ) =>
           \A c \in chunks :
             c.id = qres'.cands[Len(qres'.cands)].id => ~c.is_deprecated]_vars

\* A deprecated chunk of the tenant came out of the search, passed the test
\* of line 27 and has its row, and the query excluded it while it returned
\* another chunk.
C11_Witness ==
  /\ qres # NoQuery /\ qres.kind = "return" /\ qres.exclude_deprecated
  /\ \E i \in 1..Len(qres.faiss_ids) :
       /\ qres.faiss_ids[i] < Len(qres.faiss_ids)
       /\ \E c \in chunks : /\ c.id = qres.faiss_ids[i]
                              /\ c.tenant_id = qres.tenant_id
                              /\ c.is_deprecated
       /\ \A j \in 1..Len(qres.items) : qres.items[j].id # qres.faiss_ids[i]

\* C12: of two candidates with the same distance and the same
\* last_updated_at, one deprecated and one not, the deprecated one scores no
\* higher, under every freshness weight.
C12_DeprecatedScoresNoHigher ==
  ( /\ call.fn = "score" /\ call.st = "returned"
    /\ call.a.distance = call.b.distance
    /\ call.a.last_updated_at = call.b.last_updated_at
    /\ call.a.is_deprecated /\ ~call.b.is_deprecated ) =>
    /\ ~ScoreLess(call.scores.b1, call.scores.a1)
    /\ ~ScoreLess(call.scores.b2, call.scores.a2)

C12_Witness ==
  /\ call.fn = "score" /\ call.st = "returned"
  /\ call.a.distance = call.b.distance
  /\ call.a.last_updated_at = call.b.last_updated_at
  /\ call.a.is_deprecated /\ ~call.b.is_deprecated
  /\ call.w1 < 0 /\ call.w2 > 0
  /\ ScoreLess(call.scores.a1, call.scores.b1)

\* The freshness part of a score, in tenths: the scores of a call are whole
\* multiples of 3650 because ages are whole years and weights whole tenths.
Tenths(score) == score.num \div 3650

\* Two candidates that differ in age only, a the older, scored under
\* w1 < w2.
C13_Case ==
  /\ call.fn = "score" /\ call.st = "returned"
  /\ call.a.distance = call.b.distance
  /\ call.a.is_deprecated = call.b.is_deprecated
  /\ call.a.last_updated_at # NoTimestamp
  /\ call.a.last_updated_at < call.b.last_updated_at
  /\ call.w1 < call.w2

\* score(a) / score(b) under w2 is at least what it is under w1.
C13_RatioGrows ==
  /\ \A x \in {"a1", "a2", "b1", "b2"} : call.scores[x].num % 3650 = 0
  /\ Tenths(call.scores.a2) * Tenths(call.scores.b1)
       >= Tenths(call.scores.a1) * Tenths(call.scores.b2)

\* C13 as stated: for two candidates identical except that one is older and
\* any weights w1 < w2 a caller may supply, the ratio of the older score to
\* the newer score under w2 is at least the ratio under w1.
C13_RatioGrowsForAnyWeights == C13_Case => C13_RatioGrows

\* C13 for weights that are not negative: the same, for 0 <= w1 < w2.
C13_RatioGrowsForPositiveWeights == (C13_Case /\ call.w1 >= 0) => C13_RatioGrows

C13_Witness ==
  /\ C13_Case /\ call.w1 >= 0
  /\ Tenths(call.scores.a2) * Tenths(call.scores.b1)
       > Tenths(call.scores.a1) * Tenths(call.scores.b2)

\* The candidates that survived lines 27-39 in the query just made, in the
\* order of the search, with the scores of lines 41-47.
Survivors == qres.cands

\* Candidate x comes before y when the survivors are sorted by final_score
\* descending, equal scores in the order of the search.
Before(x, y) ==
  \/ ScoreLess(y.final_score, x.final_score)
  \/ /\ ~ScoreLess(x.final_score, y.final_score) /\ x.pos < y.pos

\* items is the first top_k of survivors so sorted, and no longer than top_k.
IsFirstTopK(items, survivors, top_k) ==
  LET taken == SeqToSet(items)
      left == SeqToSet(survivors) \ taken
  IN /\ Len(items) <= top_k
     /\ Len(items) = Min(top_k, Len(survivors))
     /\ taken \subseteq SeqToSet(survivors)
     /\ \A i, j \in 1..Len(items) : i < j => Before(items[i], items[j])
     /\ \A x \in taken, y \in left : Before(x, y)

\* C14: the list returned is the first top_k of the surviving candidates
\* sorted by final_score descending, equal scores in the order of the
\* search, and it never has more than top_k elements.  Stated of every query
\* that returns and of every call of lines 56-57 on their own.
C14_FirstTopKSorted ==
  /\ (qres # NoQuery /\ qres.kind = "return") =>
       IsFirstTopK(qres.items, Survivors, qres.top_k)
  /\ (call.fn = "rank" /\ call.st = "returned") =>
       IsFirstTopK(call.items, call.candidates, call.top_k)

\* Three candidates: the first two equal in value though not in form, the
\* third the best; top_k cuts the sorted list between the equal two.
C14_Witness ==
  /\ call.fn = "rank" /\ call.st = "returned"
  /\ Len(call.candidates) = 3 /\ call.top_k = 2
  /\ ScoreLess(call.candidates[1].final_score, call.candidates[3].final_score)
  /\ call.candidates[1].final_score # call.candidates[2].final_score
  /\ ~ScoreLess(call.candidates[1].final_score, call.candidates[2].final_score)
  /\ ~ScoreLess(call.candidates[2].final_score, call.candidates[1].final_score)
  /\ <<call.items[1].pos, call.items[2].pos>> = <<3, 1>>

\* C15: a query with top_k <= 0 fails (with a configuration error) in every
\* state of the tenant, with an empty index as with a filled one; it never
\* returns a list.
C15_RejectsTopKBelowOne ==
  (qres # NoQuery /\ qres.top_k <= 0) => qres.kind = "raise"

\* C16: chunk_text called with chunk_overlap >= chunk_size fails (with a
\* ConfigurationError) whatever the text: it never returns.
C16_RejectsOverlapNotBelowSize ==
  (call.fn = "chunk_text" /\ call.chunk_overlap >= call.chunk_size) =>
    call.st # "returned"

\* C17: for a stream of n tokens, 0 < n <= chunk_size, chunk_text returns
\* one chunk that holds all n tokens; for n = 0 it returns the empty list;
\* and a second evaluation on the same input gives the same list.
C17_ShortTextIsOneChunk ==
  (call.fn = "chunk_text" /\ call.st = "returned" /\ call.n <= call.chunk_size) =>
    /\ call.n = 0 => call.chunks = <<>>
    /\ call.n > 0 => call.chunks = <<(<<0, call.n>>)>>
    /\ call.chunks = chunk_text(call.n, call.chunk_size, call.chunk_overlap)

\* A text shorter than chunk_size, with an overlap, has come back.
C17_Witness ==
  /\ call.fn = "chunk_text" /\ call.st = "returned"
  /\ 1 < call.n /\ call.n < call.chunk_size
  /\ 0 < call.chunk_overlap /\ call.chunk_overlap < call.n
  /\ Len(call.chunks) = 1

\* found is what a search for k over the ids held may return: min(k, n)
\* different ids of the index in ascending distance from the query, and
\* nothing for an empty index.
IsSearchResult(found, held, q, k) ==
  /\ Len(found) = Min(k, Cardinality(held))
  /\ SeqToSet(found) \subseteq held
  /\ \A i, j \in 1..Len(found) :
       i < j => found[i] # found[j] /\ Distance(q, found[i]) <= Distance(q, found[j])
  /\ \A i \in SeqToSet(found), j \in held \ SeqToSet(found) :
       Distance(q, i) <= Distance(q, j)

\* C18: VectorStore.search on an index of n entries returns min(k, n) pairs
\* with different ids of the index in ascending distance, and on an empty
\* index it returns nothing, without error.  Stated of the search of every
\* query that returns and of every call of search on its own.
C18_SearchReturnsNearest ==
  /\ (qres # NoQuery /\ qres.kind = "return") =>
       IsSearchResult(qres.faiss_ids, qres.loaded, qres.query, 2 * qres.top_k)
  /\ (call.fn = "search" /\ call.ids = {}) => call.st # "raised"
  /\ (call.fn = "search" /\ call.st = "returned") =>
       IsSearchResult(call.found, call.ids, call.query, call.k)

\* A search for fewer ids than the index holds, two of them at the same
\* distance, has returned.
C18_Witness ==
  /\ call.fn = "search" /\ call.st = "returned"
  /\ Cardinality(call.ids) = 3 /\ Len(call.found) = 2
  /\ Distance(call.query, call.found[2]) = Distance(call.query, call.found[1])

\* add_vectors of task p has returned: the task got past line 74, whatever
\* became of it afterwards.
Added(p) == loc[p].added

\* C19: once add_vectors has returned, load_index in a new process yields an
\* index that holds every id passed to it, whatever crashes later.
C19_AddedVectorsSurvive ==
  \A p \in Procs :
    Added(p) =>
      SeqToSet(loc[p].chunk_ids) \subseteq load_index(file[args[p].tenant_id]).ids

\* The Document row that task p inserted is committed.
DocumentCommitted(p) ==
  loc[p].document # NULL /\ \E d \in documents : d.id = loc[p].document

\* C20: at every moment of a call, and after it failed at any step, the
\* metadata rows it inserted are committed all together or not at all: with
\* its Document row go its KnowledgeSource row and one DocumentChunk row per
\* chunk; without it, no chunk row and no source row of the call.  A call
\* that failed before line 71 is among those with none.
C20_AllRowsOrNone ==
  \A p \in Procs :
    /\ pc[p] \in {"source", "source_insert", "document", "document_insert", "chunk",
                "insert", "commit"} =>
         ~DocumentCommitted(p)
    /\ IF DocumentCommitted(p)
       THEN /\ \E r \in sources : r.id = loc[p].source
            /\ Len(loc[p].chunk_ids) = loc[p].nchunks
            /\ \A id \in SeqToSet(loc[p].chunk_ids) :
                 \E c \in chunks : c.id = id /\ c.document_id = loc[p].document
       ELSE /\ \A c \in chunks :
                 c.id \notin SeqToSet(loc[p].chunk_ids)
                   /\ (loc[p].document # NULL => c.document_id # loc[p].document)
            /\ \A r \in sess[p].sources : \A c \in sources : c.id # r.id

\* A call failed after it had inserted a chunk row and before line 71, while
\* another call committed its rows.
C20_Witness ==
  \E p, q \in Procs :
    /\ pc[p] = "done" /\ result[p].message = "Exception"
    /\ loc[p].chunk_ids # <<>> /\ ~DocumentCommitted(p)
    /\ q # p /\ DocumentCommitted(q)

\* C21: when the embedding model is unavailable or fails during a query, the
\* error does not leave the query path: query_knowledge responds with the
\* fixed "no information found" answer.
C21_EmbedderFailureFallsBack ==
  (qres # NoQuery /\ qres.at = "embed_text") => resp = NoInformation

\* C23: generate_answer is never called with an empty chunk list: whenever
\* retrieve_chunks returns no chunks, query_knowledge returns the fixed
\* response with retrieved_chunks = 0 and makes no call of the generator.
C23_NoGeneratorOnEmptyList ==
  /\ (qres # NoQuery /\ qres.kind = "return" /\ qres.items = <<>>) =>
       /\ resp = NoInformation
       /\ resp.retrieved_chunks = 0 /\ resp.generated = 0
  /\ (qres # NoQuery /\ resp # NoResponse /\ resp.generated > 0) =>
       qres.kind = "return" /\ Len(qres.items) >= 1

\* The search found vectors of the tenant, none of them became a candidate,
\* and the fixed response went out.
C23_Witness ==
  /\ qres # NoQuery /\ qres.kind = "return"
  /\ qres.faiss_ids # <<>> /\ qres.items = <<>>
  /\ resp = NoInformation

\* C22: retrieve_chunks for tenant T returns only chunks whose tenant_id is
\* T, loading T's index file; and ingest_knowledge for tenant T reads and
\* writes only T's index file, in every interleaving of ingests and queries
\* of the tenants.
C22_TenantsArePartitioned ==
  /\ [](  (qres # NoQuery /\ qres.kind = "return") =>
            \A i \in 1..Len(qres.items) :
              /\ qres.items[i].tenant_id = qres.tenant_id
              /\ \A c \in chunks :
                   c.id = qres.items[i].id => c.tenant_id = qres.tenant_id )
  /\ [][ /\ (qres = NoQuery /\ qres' # NoQuery /\ qres'.at # "embed_text") =>
              qres'.loaded = load_index(file[qres'.tenant_id]).ids
         /\ \A t \in Tenants :
              file'[t] # file[t] =>
                \E p \in Procs : /\ pc[p] \in {"add", "saving"}
                                 /\ args[p].tenant_id = t
         /\ \A p \in Procs :
              (pc[p] = "chunk" /\ pc'[p] = "insert") =>
                loc'[p].index = load_index(file[args[p].tenant_id]) ]_vars

\* Two tenants have ingested and have their index files, and a query of one
\* of them returned chunks.
C22_Witness ==
  /\ qres # NoQuery /\ qres.kind = "return" /\ qres.items # <<>>
  /\ \E t \in Tenants \ {qres.tenant_id} :
       /\ file[t].st = "ok" /\ file[t].ids # {}
       /\ \E c \in chunks : c.tenant_id = t /\ c.faiss_id # NULL
  /\ file[qres.tenant_id].st = "ok"

\* C24: for every chunk that ingest_knowledge creates, its row is committed
\* (with faiss_id null) before its vector is added to the index; the index
\* written by add_vectors holds the vector under the chunk's primary key;
\* faiss_id is set only after add_vectors has returned, by the call that
\* created the chunk, and then it equals the chunk's own id.
C24_CommitThenIndexThenMark ==
  /\ [](\A c \in chunks : c.faiss_id # NULL => c.faiss_id = c.id)
  /\ [](\A p \in Procs :
          pc[p] \in {"insert", "commit", "add", "saving"} =>
            \A c \in chunks : c.id \in SeqToSet(loc[p].chunk_ids) => c.faiss_id = NULL)
  /\ [][\A p \in Procs :
         LET ids == SeqToSet(loc[p].chunk_ids)
             t == args[p].tenant_id
         IN /\ (pc[p] = "add" /\ pc'[p] = "saving") =>
                 /\ \A id \in ids : \E c \in chunks : c.id = id /\ c.faiss_id = NULL
                 /\ ids \subseteq loc'[p].index.ids
            /\ (pc[p] # "mark" /\ pc'[p] = "mark") => pc[p] = "saving"
            /\ (pc[p] = "saving" /\ pc'[p] = "mark"
                  /\ file[t].writers = {p} /\ ~file[t].dirty) =>
                 file'[t].st = "ok" /\ ids \subseteq file'[t].ids
            /\ \A c \in chunks' :
                 (c.id \in ids /\ c.faiss_id # NULL /\ c \notin chunks) =>
                   /\ pc[p] = "mark"
                   /\ \E c0 \in chunks : c0.id = c.id /\ c0.faiss_id = NULL]_vars

\* One call has marked its chunks, whose ids are not their positions in the
\* document, and another one failed between the commit of its rows and the
\* end of add_vectors, so that its chunks are committed and not marked.
C24_Witness ==
  \E p, q \in Procs :
    /\ Indexed(p) /\ loc[p].chunk_ids # <<>>
    /\ \A id \in SeqToSet(loc[p].chunk_ids) :
         \E c \in chunks : c.id = id /\ c.faiss_id = id /\ c.chunk_index + 1 # id
    /\ q # p /\ pc[q] = "done" /\ result[q].message = "Exception"
    /\ loc[q].chunk_ids # <<>>
    /\ \A id \in SeqToSet(loc[q].chunk_ids) :
         \E c \in chunks : c.id = id /\ c.faiss_id = NULL

\* C25: when the tenant's index file is corrupt (load_index falls back to an
\* empty index) and ingest_knowledge is run again, to its end, for a
\* document already ingested, the chunk vectors of that document are in the
\* tenant's index afterwards.
C25_RerunRestoresVectors ==
  [][\A p, q \in Procs :
       LET t == args[q].tenant_id
       IN ( /\ p \in prior[q] /\ args[p] = args[q] /\ DocumentCommitted(p)
            /\ file[t].st = "partial" /\ file[t].writers = {}
            /\ load_index(file[t]) = EmptyIndex
            /\ pc[q] # "done" /\ pc'[q] = "done" /\ result'[q].message # "Exception" ) =>
          \A c \in chunks' :
            c.document_id = loc[p].document => c.id \in load_index(file'[t]).ids]_vars

\* The windows w of a stream of n tokens: none empty, none longer than
\* chunk_size, the first at token 0, each next one chunk_size - chunk_overlap
\* further and sharing exactly chunk_overlap tokens with the one before, all
\* but the last of chunk_size tokens, the last one ending at the end of the
\* stream, every token in some window.
IsWindowing(w, n, chunk_size, chunk_overlap) ==
  /\ (n = 0) <=> (w = <<>>)
  /\ \A i \in 1..Len(w) : 0 < w[i][2] - w[i][1] /\ w[i][2] - w[i][1] <= chunk_size
  /\ w # <<>> => w[1][1] = 0 /\ w[Len(w)][2] = n
  /\ \A i \in 1..(Len(w) - 1) :
       /\ w[i + 1][1] = w[i][1] + chunk_size - chunk_overlap
       /\ w[i][2] - w[i + 1][1] = chunk_overlap
       /\ w[i][2] - w[i][1] = chunk_size
  /\ \A tok \in 0..(n - 1) : \E i \in 1..Len(w) : w[i][1] <= tok /\ tok < w[i][2]

\* C26: for every token stream and every chunk_size > chunk_overlap >= 0,
\* chunk_text terminates, and the windows it returns have at most chunk_size
\* tokens, none is empty, consecutive ones start chunk_size - chunk_overlap
\* apart and share exactly chunk_overlap tokens, only the last may be
\* shorter than chunk_size, and every token is in a window.
C26_TerminatesWithWindows ==
  /\ []( ( /\ call.fn = "chunk_text" /\ call.st = "returned"
           /\ call.chunk_overlap < call.chunk_size ) =>
         /\ IsWindowing(call.chunks, call.n, call.chunk_size, call.chunk_overlap)
         /\ call.chunks = chunk_text(call.n, call.chunk_size, call.chunk_overlap) )
  /\ ( (call.fn = "chunk_text" /\ call.chunk_overlap < call.chunk_size)
         ~> (call.st = "returned") )

\* A call with an overlap returned more than one window, the last of them
\* shorter than chunk_size.
C26_Witness ==
  /\ call.fn = "chunk_text" /\ call.st = "returned"
  /\ 0 < call.chunk_overlap /\ call.chunk_overlap < call.chunk_size
  /\ Len(call.chunks) >= 2
  /\ call.chunks[Len(call.chunks)][2] - call.chunks[Len(call.chunks)][1] < call.chunk_size

\* C27: retrieve_chunks is read-only: in every state and for every argument,
\* a query leaves the KnowledgeSource, Document and DocumentChunk rows, the
\* primary-key sequences and the index files as they were.
C27_RetrievalIsReadOnly ==
  [][(qres' # qres /\ qres' # NoQuery) =>
       /\ sources' = sources /\ documents' = documents /\ chunks' = chunks
       /\ seq' = seq /\ file' = file
       /\ sess' = sess]_vars

\* A query was made, the embedding model being up, by a tenant that has
\* chunk rows and whose index file is unreadable, and the file is still so.
C27_Witness ==
  /\ qres # NoQuery /\ qres.at # "embed_text"
  /\ file[qres.tenant_id].st = "partial"
  /\ \E c \in chunks : c.tenant_id = qres.tenant_id

\* Call q ingests another version of the source that call p, finished before
\* q started, had ingested and indexed.
NewVersionAfter(p, q) ==
  /\ p \in prior[q] /\ Indexed(p)
  /\ args[p].tenant_id = args[q].tenant_id
  /\ args[p].source_id = args[q].source_id
  /\ args[p].version # args[q].version

\* C28: ingesting a new version of a source leaves the Document and
\* DocumentChunk rows of the earlier versions as they are (is_deprecated and
\* faiss_id among the columns) at every step, and once it has written the
\* index the vectors of the earlier versions are still in it, beside its own.
C28_NewVersionKeepsOldOnes ==
  /\ [][\A q \in Procs :
         pc'[q] # pc[q] =>
           /\ \A d \in documents : d \in documents'
           /\ \A c \in chunks : c.document_id # loc[q].document => c \in chunks']_vars
  /\ [](\A p, q \in Procs :
          (NewVersionAfter(p, q) /\ Indexed(q)) =>
            /\ SeqToSet(loc[p].chunk_ids) \cup SeqToSet(loc[q].chunk_ids)
                 \subseteq Persisted(args[q].tenant_id)
            /\ \A id \in SeqToSet(loc[p].chunk_ids) :
                 \E c \in chunks : /\ c.id = id /\ c.faiss_id = id
                                    /\ ~c.is_deprecated
                                    /\ c.version = args[p].version)

\* Version 1 and then version 2 of a source were ingested, and the index
\* file holds the vectors of both.
C28_Witness ==
  \E p, q \in Procs :
    /\ NewVersionAfter(p, q) /\ Indexed(q)
    /\ loc[p].chunk_ids # <<>> /\ loc[q].chunk_ids # <<>>
    /\ file[args[q].tenant_id].st = "ok"
    /\ SeqToSet(loc[p].chunk_ids) \subseteq file[args[q].tenant_id].ids

\* C29: after a call on content of zero chunks has returned, the Document
\* row it created is committed, and a second call with the same tenant_id,
\* source_id and version, in a new session, returns "Document already
\* exists" with the same document_id.
C29_EmptyDocumentIsKept ==
  \A p, q \in Procs :
    ( /\ p \in prior[q] /\ args[p] = args[q]
      /\ Len(chunk_text(args[p].content, CHUNK_SIZE, CHUNK_OVERLAP)) = 0
      /\ result[p].message = "No content to ingest"
      /\ Completed(q) ) =>
      /\ DocumentCommitted(p)
      /\ result[q].message = "Document already exists"
      /\ result[q].document_id = result[p].document_id

\* The chunk ids that the calls of tenants other than t have drawn from the
\* shared sequence of DocumentChunk.id; an id stays drawn when its row is
\* rolled back and when the call is over.
DrawnByOthers(t) == {i \in 1..Len(drawn) : drawn[i] # t}

\* The id that a chunk of tenant t has in the run that differs from this one
\* in that the other tenants ingest nothing.
AloneId(t, id) == id - Cardinality({j \in DrawnByOthers(t) : j < id})

\* The chunk that the candidate at position i of the query just made has in
\* that run, when it reaches line 41 there: it passes line 27 under the id
\* it has there, its row is found and lines 38-39 do not leave it out.  The
\* vectors, their distances and the rows of the tenant are the same in the
\* two runs, so the search gives the same chunks in the same order; the rows
\* of the chunks in a tenant's index do not change while tasks run.
AloneScored(i) ==
  LET faiss_id == qres.faiss_ids[i]
  IN {c \in chunks : /\ c.tenant_id = qres.tenant_id /\ c.id = faiss_id
                     /\ AloneId(qres.tenant_id, faiss_id) < Len(qres.faiss_ids)
                     /\ ~Excluded(c, qres.exclude_deprecated)}

\* That run leaves retrieve_chunks with the TypeError of line 42: the
\* session hands back the timestamps as it does in this run.
AloneRaises ==
  \E i \in 1..Len(qres.faiss_ids) :
    \E c \in AloneScored(i) : FreshnessRaises(c.last_updated_at, qres.aware)

\* The candidates that run has scored, from position i on, when it leaves
\* the loop: by its end or by the TypeError.
RECURSIVE AloneCandidates(_)
AloneCandidates(i) ==
  IF i > Len(qres.faiss_ids) THEN <<>>
  ELSE IF AloneScored(i) = {} THEN AloneCandidates(i + 1)
  ELSE LET chunk == CHOOSE c \in AloneScored(i) : TRUE
       IN IF FreshnessRaises(chunk.last_updated_at, qres.aware) THEN <<>>
          ELSE <<[id |-> chunk.id, tenant_id |-> chunk.tenant_id,
                  is_deprecated |-> chunk.is_deprecated, pos |-> i,
                  final_score |-> FinalScore(chunk, Distance(qres.query, chunk.id),
                                             qres.freshness_weight, qres.aware)]>>
               \o AloneCandidates(i + 1)

\* How that run leaves retrieve_chunks, and with what.
AloneOutcome ==
  IF AloneRaises THEN [kind |-> "raise", items |-> <<>>]
  ELSE [kind |-> "return", items |-> Slice(SortDesc(AloneCandidates(1)), qres.top_k)]

\* C30: the chunks that retrieve_chunks returns for a tenant, and their
\* order, are those it returns in the run that differs only in that the
\* other tenants ingest nothing: the ids that other tenants draw from the
\* shared sequence do not change the result.
C30_OtherTenantsDoNotChangeResult ==
  (qres # NoQuery /\ qres.kind = "return") =>
    AloneOutcome = [kind |-> "return", items |-> qres.items]

====
